---- MODULE Spec2Model ----
(***************************************************************************)
(* Graph layout preparation of the KnowledgeGraph dashboard component      *)
(* (frontend/app/components/KnowledgeGraph.tsx, the useMemo at lines       *)
(* 43-97): node normalisation, edge filtering, connected-component         *)
(* labelling by an explicit-stack DFS, and synthetic connector injection.  *)
(*                                                                         *)
(* JavaScript values are represented as follows.                           *)
(*   - an optional value (undefined/null or a value) is None = <<>> or     *)
(*     Some(v) = <<v>>; `x ?? d` is Coalesce(x, d);                        *)
(*   - strings are TLA+ strings; the empty string is falsy (Truthy);       *)
(*   - numbers that are divided (importance, weight) are exact rationals   *)
(*     [num, den] in lowest terms; sizes, counts and component numbers     *)
(*     are integers.                                                       *)
(***************************************************************************)
EXTENDS Integers, Sequences, FiniteSets, TLC

\* KnowledgeGraph: the data prop, the useMemo result and its locals
VARIABLES data, nodes, edges, edgesIn, syntheticEdges, outcome, lastOp

\* Home (page.tsx lines 33-35) and the parts of KnowledgeGraph that depend on
\* the selection: state, handler props, effect closures, entity fetches
VARIABLES selectedEntity, entityDetails, entityLoading, showLabels,
          handlers, clickSelected, inFlight, effectsRun, lastEvent

\* Home (page.tsx lines 26-31, 43-94): the dashboard state, the position of
\* the running loadDashboardData (loadPc), the fate of each request of the
\* current run (requests) and the number of runs started (runs)
VARIABLES loadPc, loading, error, dashboardData, knowledgeGraphData, topics,
          insights, requests, runs

\* the traversal of KnowledgeGraph lines 56-80 taken one loop iteration at a
\* time: adj, the locals of the loops (walk), the position of the for loop
\* (walkAt, walkPc), and how often each node id has been pushed, popped and
\* given its component
VARIABLES walkAdj, walk, walkAt, walkPc, pushes, pops, assigns

memoVars == <<data, nodes, edges, edgesIn, syntheticEdges, outcome, lastOp>>

homeVars == <<selectedEntity, entityDetails, entityLoading, showLabels,
              handlers, clickSelected, inFlight, effectsRun, lastEvent>>

loadVars == <<loadPc, loading, error, dashboardData, knowledgeGraphData,
              topics, insights, requests, runs>>

walkVars == <<walkAdj, walk, walkAt, walkPc, pushes, pops, assigns>>

vars == <<memoVars, homeVars, loadVars, walkVars>>

----------------------------------------------------------------------------
(* Bounds of the model *)

MaxNodes == 3

MaxEdges == 2

\* edges of a payload whose traversal is followed step by step
MaxWalkEdges == 3

\* entity fetches that may be outstanding at once
MaxInFlight == 2

----------------------------------------------------------------------------
(* JavaScript value helpers *)

None == <<>>

Some(v) == <<v>>

\* x ?? d
Coalesce(x, d) == IF x = None THEN d ELSE x[1]

\* the value of n.id for a node record that has no id property
UndefinedId == "<undefined>"

\* truthiness of a string or undefined: the empty string and undefined are
\* falsy
Truthy(s) == s # "" /\ s # UndefinedId

\* (list || []) for a list that may be undefined
OrEmpty(x) == IF x = None THEN <<>> ELSE x[1]

Abs(i) == IF i < 0 THEN -i ELSE i

RECURSIVE GCD(_, _)
GCD(a, b) == IF b = 0 THEN a ELSE GCD(b, a % b)

\* the rational n/d (d > 0) in lowest terms
Rat(n, d) ==
  LET g == GCD(Abs(n), d)
  IN  [num |-> n \div g, den |-> d \div g]

\* Math.max on integers
MathMax(a, b) == IF a >= b THEN a ELSE b

----------------------------------------------------------------------------
(* Normalisation, KnowledgeGraph.tsx lines 44-53 *)

ImportanceDivisor == 5

\* ((n as any).size || 1): undefined and 0 are falsy
SizeOrOne(size) == IF size = None \/ size[1] = 0 THEN 1 ELSE size[1]

\* the importance of line 47, always dividing (a misplaced parenthesis)
ImportanceOfAlwaysDivided(n) ==
  IF n.importance # None
    THEN Rat(n.importance[1].num, n.importance[1].den * ImportanceDivisor)
    ELSE Rat(MathMax(SizeOrOne(n.size), 1), ImportanceDivisor)

\* the importance of line 47 with || in place of ??
ImportanceOfFalsy(n) ==
  IF n.importance # None /\ n.importance[1].num # 0
    THEN n.importance[1]
    ELSE Rat(MathMax(SizeOrOne(n.size), 1), ImportanceDivisor)

\* (n as any).importance ?? Math.max((n as any).size || 1, 1) / 5
ImportanceOf(n) ==
  IF n.importance # None
    THEN n.importance[1]
    ELSE Rat(MathMax(SizeOrOne(n.size), 1), ImportanceDivisor)

\* n.label ?? n.id, undefined when the node has neither
LabelOf(n) ==
  IF n.label # None THEN n.label
  ELSE IF n.id = UndefinedId THEN None ELSE Some(n.id)

\* the object literal of lines 44-50; component is not set yet
NormalizeNode(n) ==
  [id         |-> n.id,
   label      |-> LabelOf(n),
   importance |-> Some(ImportanceOf(n)),
   frequency  |-> Some(Coalesce(n.frequency, 0)),
   degree     |-> Some(Coalesce(n.degree, 0)),
   component  |-> None]

\* (data?.graph?.nodes || []).map(...)
NodesIn(d) ==
  LET raw == OrEmpty(d.nodes)
  IN  [i \in 1..Len(raw) |-> NormalizeNode(raw[i])]

\* new Set(nodesIn.map((n) => n.id))
NodeIdSet(ns) == {ns[i].id : i \in 1..Len(ns)}

\* the filter predicate of line 53 testing the source only
KeepEdgeSourceOnly(e, ids) == e.source \in ids

\* the filter predicate of line 53
KeepEdge(e, ids) == e.source \in ids /\ e.target \in ids

\* (data?.graph?.edges || []).filter(...)
EdgesIn(d, ids) == SelectSeq(OrEmpty(d.edges), LAMBDA e : KeepEdge(e, ids))

----------------------------------------------------------------------------
(* Adjacency, KnowledgeGraph.tsx lines 56-61 *)

\* nodesIn.forEach((n) => adj.set(n.id, []))
AdjInit(ns) == [k \in NodeIdSet(ns) |-> <<>>]

\* line 59 alone: the edge is recorded in one direction only
AddEdgeDirected(adj, e) == [adj EXCEPT ![e.source] = Append(@, e.target)]

\* lines 59-60 for an edge whose endpoints are keys of adj
AddEdge(adj, e) ==
  LET a1 == [adj EXCEPT ![e.source] = Append(@, e.target)]
  IN  [a1 EXCEPT ![e.target] = Append(@, e.source)]

\* edgesIn.forEach(...): adj.get(x)!.push(...) throws a TypeError when x is
\* no key of adj, which ends the whole computation
RECURSIVE BuildAdj(_, _, _)
BuildAdj(st, es, k) ==
  IF k > Len(es) \/ st.threw THEN st
  ELSE IF es[k].source \notin DOMAIN st.adj \/ es[k].target \notin DOMAIN st.adj
    THEN [st EXCEPT !.threw = TRUE]
    ELSE BuildAdj([st EXCEPT !.adj = AddEdge(st.adj, es[k])], es, k + 1)

----------------------------------------------------------------------------
(* Connected components, KnowledgeGraph.tsx lines 62-80 *)

\* nodesIn.find((x) => x.id === cur): index of the first match, 0 for none
FindIndex(ns, id) ==
  IF \E i \in 1..Len(ns) : ns[i].id = id
    THEN CHOOSE i \in 1..Len(ns) :
           ns[i].id = id /\ \A j \in 1..(i - 1) : ns[j].id # id
    ELSE 0

\* the neighbour loop without visited.add(nb): every neighbour not yet
\* visited is pushed and left unmarked
VisitNeighboursUnmarked(st, nbs, k) ==
  [st EXCEPT !.stack = @ \o SelectSeq(SubSeq(nbs, k, Len(nbs)),
                                      LAMBDA nb : nb \notin st.visited)]

\* for (const nb of adj.get(cur) || []) { if (!visited.has(nb)) {...} }
RECURSIVE VisitNeighbours(_, _, _)
VisitNeighbours(st, nbs, k) ==
  IF k > Len(nbs) THEN st
  ELSE IF nbs[k] \in st.visited
    THEN VisitNeighbours(st, nbs, k + 1)
    ELSE VisitNeighbours([st EXCEPT !.visited = @ \cup {nbs[k]},
                                    !.stack = Append(@, nbs[k])], nbs, k + 1)

\* one iteration of the while loop, lines 70-78
DfsStep(st, adj) ==
  LET cur  == st.stack[Len(st.stack)]
      rest == SubSeq(st.stack, 1, Len(st.stack) - 1)
      i    == FindIndex(st.nodes, cur)
  IN  IF i = 0
        THEN [st EXCEPT !.threw = TRUE, !.stack = rest]
        ELSE VisitNeighbours(
               [st EXCEPT !.stack = rest,
                          !.nodes[i].component = Some(st.comp)],
               IF cur \in DOMAIN adj THEN adj[cur] ELSE <<>>, 1)

\* while (stack.length) {...}
RECURSIVE RunStack(_, _)
RunStack(st, adj) ==
  IF st.stack = <<>> \/ st.threw THEN st ELSE RunStack(DfsStep(st, adj), adj)

\* one iteration of the for loop with comp += 1 moved before the continue
StartComponentCountAll(st, adj, i) ==
  LET id == st.nodes[i].id
  IN  IF id \in st.visited THEN [st EXCEPT !.comp = @ + 1]
      ELSE RunStack([st EXCEPT !.comp = @ + 1,
                               !.stack = <<id>>,
                               !.visited = @ \cup {id}], adj)

\* one iteration of the for loop, lines 64-68 and the while loop
StartComponent(st, adj, i) ==
  LET id == st.nodes[i].id
  IN  IF id \in st.visited THEN st
      ELSE RunStack([st EXCEPT !.comp = @ + 1,
                               !.stack = <<id>>,
                               !.visited = @ \cup {id}], adj)

\* for (const n of nodesIn) {...}
RECURSIVE LabelFrom(_, _, _)
LabelFrom(st, adj, i) ==
  IF i > Len(st.nodes) \/ st.threw THEN st
  ELSE LabelFrom(StartComponent(st, adj, i), adj, i + 1)

\* lines 62-80: let comp = 0; const visited = new Set(); for ...
LabelComponents(ns, adj) ==
  LabelFrom([nodes |-> ns, visited |-> {}, stack |-> <<>>, comp |-> 0,
             threw |-> FALSE], adj, 1)

----------------------------------------------------------------------------
(* Synthetic connectors, KnowledgeGraph.tsx lines 83-94 *)

\* n.component || 0
ComponentOrZero(n) == IF n.component = None THEN 0 ELSE n.component[1]

\* .sort((a, b) => a - b) of a set of distinct numbers
RECURSIVE SortAsc(_)
SortAsc(S) ==
  IF S = {} THEN <<>>
  ELSE LET m == CHOOSE x \in S : \A y \in S : x <= y
       IN  <<m>> \o SortAsc(S \ {m})

\* Array.from(new Set(nodesIn.map((n) => n.component || 0))).sort(...)
Comps(ns) == SortAsc({ComponentOrZero(ns[i]) : i \in 1..Len(ns)})

\* nodesIn.find((n) => (n.component || 0) === c), for c in comps
RepresentativeByComp(ns, c) ==
  LET i == CHOOSE i \in 1..Len(ns) :
             /\ ComponentOrZero(ns[i]) = c
             /\ \A j \in 1..(i - 1) : ComponentOrZero(ns[j]) # c
  IN  ns[i].id

\* if (a && b): both representative ids are truthy
HasBoth(a, b) == Truthy(a) /\ Truthy(b)

SyntheticWeight == Rat(1, 10)

\* the loop of lines 90-94
RECURSIVE SyntheticFrom(_, _, _)
SyntheticFrom(ns, comps, i) ==
  IF i > Len(comps) - 1 THEN <<>>
  ELSE LET a == RepresentativeByComp(ns, comps[i])
           b == RepresentativeByComp(ns, comps[i + 1])
       IN  (IF HasBoth(a, b)
              THEN <<[source |-> a, target |-> b, weight |-> Some(SyntheticWeight)]>>
              ELSE <<>>) \o SyntheticFrom(ns, comps, i + 1)

SyntheticEdges(ns) == SyntheticFrom(ns, Comps(ns), 1)

----------------------------------------------------------------------------
(* The whole useMemo callback, KnowledgeGraph.tsx lines 43-97 *)

\* the callback returning the unfiltered edge list in line 96
UseMemoUnfiltered(d) ==
  LET ns0   == NodesIn(d)
      es    == EdgesIn(d, NodeIdSet(ns0))
      built == BuildAdj([adj |-> AdjInit(ns0), threw |-> FALSE], es, 1)
      lab   == LabelComponents(ns0, built.adj)
      syn   == SyntheticEdges(lab.nodes)
  IN  IF built.threw \/ lab.threw
        THEN [threw |-> TRUE, nodes |-> <<>>, edges |-> <<>>,
              edgesIn |-> <<>>, syntheticEdges |-> <<>>]
        ELSE [threw |-> FALSE, nodes |-> lab.nodes,
              edges |-> OrEmpty(d.edges) \o syn,
              edgesIn |-> es, syntheticEdges |-> syn]

UseMemo(d) ==
  LET ns0   == NodesIn(d)
      es    == EdgesIn(d, NodeIdSet(ns0))
      built == BuildAdj([adj |-> AdjInit(ns0), threw |-> FALSE], es, 1)
      lab   == LabelComponents(ns0, built.adj)
      syn   == SyntheticEdges(lab.nodes)
  IN  IF built.threw \/ lab.threw
        THEN [threw |-> TRUE, nodes |-> <<>>, edges |-> <<>>,
              edgesIn |-> <<>>, syntheticEdges |-> <<>>]
        ELSE [threw |-> FALSE, nodes |-> lab.nodes, edges |-> es \o syn,
              edgesIn |-> es, syntheticEdges |-> syn]

----------------------------------------------------------------------------
(* Payloads: the `data` prop, KnowledgeGraph.tsx lines 22-29 *)

Ids == {"", "a", "b"}

\* a raw node carrying nothing but its id
BareNode(id) ==
  [id |-> id, label |-> None, size |-> None, importance |-> None,
   frequency |-> None, degree |-> None]

\* raw nodes with every combination of optional fields absent or present
RawNodes ==
  [id         : Ids,
   label      : {None, Some("L")},
   size       : {None, Some(0), Some(-2), Some(10)},
   importance : {None, Some(Rat(0, 1)), Some(Rat(3, 1))},
   frequency  : {None, Some(4)},
   degree     : {None, Some(2)}]

SeqsUpTo(S, n) == UNION {[1..k -> S] : k \in 0..n}

Distinct(q) == \A i, j \in DOMAIN q : i # j => q[i] # q[j]

BareNodes(q) == [i \in DOMAIN q |-> BareNode(q[i])]

BareEdges == [source : Ids, target : Ids, weight : {None}]

\* payloads that vary the shape of the graph: up to MaxNodes bare nodes with
\* distinct ids and up to MaxEdges weightless edges between any ids (so an
\* edge may name a node that is not listed), each list possibly absent
GraphPayloads ==
  [nodes : {None} \cup {Some(BareNodes(q)) :
                          q \in {r \in SeqsUpTo(Ids, MaxNodes) : Distinct(r)}},
   edges : {None} \cup {Some(q) : q \in SeqsUpTo(BareEdges, MaxEdges)}]

\* payloads in which a node id occurs more than once: up to MaxNodes bare
\* nodes and at most one edge
DuplicatePayloads ==
  [nodes : {Some(BareNodes(q)) :
              q \in {r \in SeqsUpTo(Ids, MaxNodes) : ~Distinct(r)}},
   edges : {Some(<<>>)} \cup {Some(<<e>>) : e \in BareEdges}]

\* payloads that vary the optional fields: one raw node, and no edge or one
\* self-edge with or without a weight
FieldPayloads ==
  {[nodes |-> Some(<<n>>), edges |-> Some(es)] :
     n \in RawNodes,
     es \in {<<>>} \cup {<<[source |-> "a", target |-> "a", weight |-> w]>> :
                           w \in {None, Some(Rat(2, 1))}}}

Payloads == GraphPayloads \cup DuplicatePayloads \cup FieldPayloads

\* payloads with a node record that lacks the required id: one raw node with
\* every combination of optional fields, or two bare nodes, and at most one
\* edge
MalformedPayloads ==
  [nodes : {Some(<<[n EXCEPT !.id = UndefinedId]>>) : n \in RawNodes}
             \cup {Some(BareNodes(q)) :
                     q \in {r \in (Ids \cup {UndefinedId}) \X (Ids \cup {UndefinedId}) :
                              \E i \in DOMAIN r : r[i] = UndefinedId}},
   edges : {Some(<<>>)} \cup {Some(<<e>>) : e \in BareEdges}]

----------------------------------------------------------------------------
(* The component as a state machine *)

\* the four requests of loadDashboardData, in the order they are issued
Requests == {"overview", "graph", "topics", "insights"}

\* Home after a run of loadDashboardData in which every request succeeded
LoadDone ==
  /\ loadPc = "done"
  /\ loading = FALSE
  /\ error = None
  /\ dashboardData = Some(1)
  /\ knowledgeGraphData = Some(1)
  /\ topics = Some(1)
  /\ insights = Some(1)
  /\ requests = [r \in Requests |-> "ok"]
  /\ runs = 1

\* no traversal under way
WalkIdle ==
  /\ walkAdj = <<>>
  /\ walk = [nodes |-> <<>>, visited |-> {}, stack |-> <<>>, comp |-> 0,
             threw |-> FALSE]
  /\ walkAt = 1
  /\ walkPc = "done"
  /\ pushes = <<>>
  /\ pops = <<>>
  /\ assigns = <<>>

\* Home as constructed (useState initial values, page.tsx lines 33-35) and
\* KnowledgeGraph's own state (line 39), before any event
HomeIdle ==
  /\ selectedEntity = None
  /\ entityDetails = None
  /\ entityLoading = FALSE
  /\ showLabels = TRUE
  /\ handlers = 0
  /\ clickSelected = None
  /\ inFlight = <<>>
  /\ effectsRun = {}
  /\ lastEvent = [type |-> "none", node |-> None]

Init ==
  /\ HomeIdle
  /\ LoadDone
  /\ WalkIdle
  /\ data \in Payloads
  /\ nodes = <<>>
  /\ edges = <<>>
  /\ edgesIn = <<>>
  /\ syntheticEdges = <<>>
  /\ outcome = "pending"
  /\ lastOp = "none"

\* a render with the payload d: useMemo runs its callback (deps [data]); a
\* throw inside it fails the render and no result is produced
Render(d, op) ==
  LET r == UseMemo(d)
  IN  /\ data' = d
      /\ nodes' = r.nodes
      /\ edges' = r.edges
      /\ edgesIn' = r.edgesIn
      /\ syntheticEdges' = r.syntheticEdges
      /\ outcome' = IF r.threw THEN "error" ELSE "ok"
      /\ lastOp' = op
      /\ UNCHANGED <<homeVars, loadVars, walkVars>>

\* the first render of the component
Mount ==
  /\ outcome = "pending"
  /\ Render(data, "mount")

SwapAt(q, i) == [q EXCEPT ![i] = q[i + 1], ![i + 1] = q[i]]

\* a new payload arrives that lists the same nodes with two neighbours swapped
SwapNodes ==
  /\ outcome = "ok"
  /\ data.nodes # None
  /\ \E i \in 1..(Len(data.nodes[1]) - 1) :
       Render([data EXCEPT !.nodes = Some(SwapAt(data.nodes[1], i))], "reorder")

\* a new payload arrives that lists the same edges with two neighbours swapped
SwapEdges ==
  /\ outcome = "ok"
  /\ data.edges # None
  /\ \E i \in 1..(Len(data.edges[1]) - 1) :
       Render([data EXCEPT !.edges = Some(SwapAt(data.edges[1], i))], "reorder")

\* a new payload arrives with source and target of one edge exchanged
FlipEdge ==
  /\ outcome = "ok"
  /\ data.edges # None
  /\ \E i \in 1..Len(data.edges[1]) :
       LET e == data.edges[1][i]
       IN  Render([data EXCEPT !.edges =
                     Some([data.edges[1] EXCEPT ![i] =
                             [e EXCEPT !.source = e.target, !.target = e.source]])],
                  "reorder")

Next == Mount \/ SwapNodes \/ SwapEdges \/ FlipEdge

Spec == Init /\ [][Next]_vars

\* the component mounted with a payload that has a node without id
InitMalformed ==
  /\ HomeIdle
  /\ LoadDone
  /\ WalkIdle
  /\ data \in MalformedPayloads
  /\ nodes = <<>>
  /\ edges = <<>>
  /\ edgesIn = <<>>
  /\ syntheticEdges = <<>>
  /\ outcome = "pending"
  /\ lastOp = "none"

NextMalformed == Mount

SpecMalformed == InitMalformed /\ [][NextMalformed]_vars

----------------------------------------------------------------------------
(* The simulation effect's force-link set-up, KnowledgeGraph.tsx lines     *)
(* 139-148.  forceLink(edges).id(d => d.id) replaces, in each link object, *)
(* a source or target that is an id by the node object with that id.  A    *)
(* reference to the node object with id x is written "@" \o x; no id of    *)
(* the model starts with "@".                                              *)

NodeRef(id) == "@" \o id

\* the link endpoint after d3 resolved it against the node list ns
ResolveEnd(x, ns) == IF x \in NodeIdSet(ns) THEN NodeRef(x) ELSE x

\* forceLink's initialisation of one link object, in place
ResolveLink(e, ns) ==
  [e EXCEPT !.source = ResolveEnd(e.source, ns),
            !.target = ResolveEnd(e.target, ns)]

\* Array.prototype.filter (line 53) keeps the payload's own edge objects:
\* the positions of the payload edges that are also elements of `edges`
RetainedObjects(d, ids) ==
  {k \in 1..Len(OrEmpty(d.edges)) : KeepEdge(OrEmpty(d.edges)[k], ids)}

\* the payload as seen by its holder once the link objects it shares with
\* `edges` have been changed in place
PayloadAfterLink(d, ns) ==
  IF d.edges = None THEN d
  ELSE [d EXCEPT !.edges =
          Some([k \in 1..Len(d.edges[1]) |->
                  IF k \in RetainedObjects(d, NodeIdSet(ns))
                    THEN ResolveLink(d.edges[1][k], ns)
                    ELSE d.edges[1][k]])]

\* the effect of lines 99-237 after a render: the simulation is created and
\* its link force resolves every element of `edges`
ForceLink ==
  /\ outcome = "ok"
  /\ lastOp \in {"mount", "reorder"}
  /\ edges' = [k \in 1..Len(edges) |-> ResolveLink(edges[k], nodes)]
  /\ edgesIn' = [k \in 1..Len(edgesIn) |-> ResolveLink(edgesIn[k], nodes)]
  /\ syntheticEdges' =
       [k \in 1..Len(syntheticEdges) |-> ResolveLink(syntheticEdges[k], nodes)]
  /\ data' = PayloadAfterLink(data, nodes)
  /\ lastOp' = "link"
  /\ UNCHANGED <<nodes, outcome>>
  /\ UNCHANGED <<homeVars, loadVars, walkVars>>

NextLink == Mount \/ ForceLink

SpecLink == Init /\ [][NextLink]_vars

----------------------------------------------------------------------------
(* Selection: Home (page.tsx lines 33-35, 96-123, 146, 224-229) and the    *)
(* effects of KnowledgeGraph (lines 99-246).  One action is one event      *)
(* together with the renders and effects React runs because of it.         *)
(*   handlers      identity of the onEntitySelect / onEntityDeselect props *)
(*                 of the last render of Home (0 or 1: consecutive renders *)
(*                 are all that is ever compared)                          *)
(*   clickSelected the selectedEntity captured by the click handler that   *)
(*                 the simulation effect installed when it last ran        *)
(*   inFlight      the entity of every fetch started and not yet settled   *)
(*   effectsRun    the effects that ran in the commit of the last event;   *)
(*                 "simulation:loading" is a run of the simulation effect  *)
(*                 in the follow-up commit caused by setEntityLoading(true)*)

\* handler props kept from the previous render (as useCallback would)
SameHandlers(h) == h

\* page.tsx lines 96-103: every render of Home creates new handler functions
FreshHandlers(h) == 1 - h

\* the commit of an event that leaves Home with selection s1, details d1 and
\* loading flag l1 and KnowledgeGraph with showLabels sh1; fresh says that a
\* newly created object was stored in Home's state
Commit(s1, d1, l1, sh1, fl1, fresh, ev) ==
  LET rendered1  == fresh \/ <<s1, d1, l1>> # <<selectedEntity, entityDetails, entityLoading>>
      h1         == IF rendered1 THEN FreshHandlers(handlers) ELSE handlers
      \* deps [nodes, edges, onEntitySelect, onEntityDeselect, showLabels]
      sim1       == h1 # handlers \/ sh1 # showLabels
      \* deps [selectedEntity], KnowledgeGraph line 246 and page.tsx line 123
      selChanged == s1 # selectedEntity
      \* fetchEntity: if (!selectedEntity) return; setEntityLoading(true)
      starts     == selChanged /\ s1 # None /\ Truthy(Coalesce(s1, ""))
      l2         == IF starts THEN TRUE ELSE l1
      h2         == IF l2 # l1 THEN FreshHandlers(h1) ELSE h1
      sim2       == h2 # h1
  IN  /\ selectedEntity' = s1
      /\ entityDetails' = d1
      /\ entityLoading' = l2
      /\ showLabels' = sh1
      /\ handlers' = h2
      /\ clickSelected' = IF sim1 \/ sim2 THEN s1 ELSE clickSelected
      /\ inFlight' = IF starts THEN Append(fl1, s1[1]) ELSE fl1
      /\ effectsRun' = (IF sim1 THEN {"simulation"} ELSE {})
                         \cup (IF sim2 THEN {"simulation:loading"} ELSE {})
                         \cup (IF selChanged THEN {"recolor", "fetchEntity"} ELSE {})
      /\ lastEvent' = ev
      /\ UNCHANGED <<memoVars, loadVars, walkVars>>

\* KnowledgeGraph lines 184-187: the click handler of a node circle
ClickNode ==
  \E n \in {nodes[i].id : i \in 1..Len(nodes)} :
    /\ (Truthy(n) /\ selectedEntity # Some(n)) => Len(inFlight) < MaxInFlight
    /\ IF clickSelected = Some(n)
         THEN \* onEntityDeselect(): page.tsx lines 100-103
              Commit(None, None, entityLoading, showLabels, inFlight, FALSE,
                     [type |-> "click", node |-> Some(n)])
         ELSE \* onEntitySelect(d.id): page.tsx lines 96-98
              Commit(Some(n), entityDetails, entityLoading, showLabels, inFlight,
                     FALSE, [type |-> "click", node |-> Some(n)])

\* page.tsx line 146: the Close button of the entity panel, which is
\* rendered only for a truthy selectedEntity (line 126, line 233)
ClosePanel ==
  /\ selectedEntity # None /\ Truthy(Coalesce(selectedEntity, ""))
  /\ Commit(None, None, entityLoading, showLabels, inFlight, FALSE,
            [type |-> "close", node |-> None])

\* KnowledgeGraph line 261: the Labels checkbox
ToggleLabels ==
  \E checked \in {~showLabels} :
    Commit(selectedEntity, entityDetails, entityLoading, checked, inFlight,
           FALSE, [type |-> "labels", node |-> None])

RemoveAt(q, k) == SubSeq(q, 1, k - 1) \o SubSeq(q, k + 1, Len(q))

\* page.tsx lines 110-119: an outstanding fetch settles, in any order; ok is
\* a response with res.ok and a JSON body, anything else is a failure
FetchSettle ==
  \E k \in 1..Len(inFlight), ok \in BOOLEAN :
    Commit(selectedEntity,
           IF ok THEN Some(inFlight[k]) ELSE None,
           FALSE, showLabels, RemoveAt(inFlight, k), ok,
           [type |-> "settle", node |-> Some(inFlight[k])])

\* the loaded dashboard: KnowledgeGraph mounted with three unconnected nodes,
\* nothing selected; every effect ran once on mount
SelectPayload ==
  [nodes |-> Some(BareNodes(<<"a", "b", "">>)), edges |-> Some(<<>>)]

InitSelect ==
  /\ data = SelectPayload
  /\ nodes = UseMemo(SelectPayload).nodes
  /\ edges = UseMemo(SelectPayload).edges
  /\ edgesIn = UseMemo(SelectPayload).edgesIn
  /\ syntheticEdges = UseMemo(SelectPayload).syntheticEdges
  /\ outcome = "ok"
  /\ lastOp = "mount"
  /\ selectedEntity = None
  /\ entityDetails = None
  /\ entityLoading = FALSE
  /\ showLabels = TRUE
  /\ handlers = 0
  /\ clickSelected = None
  /\ inFlight = <<>>
  /\ effectsRun = {"simulation", "recolor", "fetchEntity"}
  /\ lastEvent = [type |-> "mount", node |-> None]
  /\ LoadDone
  /\ WalkIdle

NextSelect == ClickNode \/ ClosePanel \/ ToggleLabels \/ FetchSettle

SpecSelect == InitSelect /\ [][NextSelect]_vars

----------------------------------------------------------------------------
(* Dashboard load: loadDashboardData, page.tsx lines 43-94, one action per *)
(* awaited request.  A request settles in one of these ways:               *)
(*   "ok"       the fetch resolves, response.ok, the JSON body parses      *)
(*   "notok"    the fetch resolves with response.ok false                  *)
(*   "reject"   the fetch promise rejects (network failure)                *)
(*   "badjson"  response.ok but response.json() rejects                    *)
(*   "nobody"   knowledge graph only: response.ok false and reading the    *)
(*              body with response.text() (line 58) rejects                *)
(* requests[r] is "none" for a request the current run has not issued and  *)
(* "pending" for one awaited.                                              *)

\* runs of loadDashboardData in one behaviour
MaxRuns == 4

Outcomes == {"ok", "notok", "reject", "badjson"}

\* line 88: err instanceof Error ? err.message : 'An error occurred', for
\* what request r throws on outcome o
MessageOf(r, o) ==
  IF o = "notok"
    THEN IF r = "overview" THEN "Failed to load dashboard data"
                           ELSE "Knowledge graph API failed"
    ELSE IF o = "badjson" THEN "SyntaxError" ELSE "TypeError"

\* lines 45-49: setLoading(true); setError(null); the overview fetch is issued
StartLoad ==
  /\ runs < MaxRuns
  /\ loading' = TRUE
  /\ error' = None
  /\ requests' = [r \in Requests |-> IF r = "overview" THEN "pending" ELSE "none"]
  /\ loadPc' = "overview"
  /\ runs' = runs + 1
  /\ UNCHANGED <<dashboardData, knowledgeGraphData, topics, insights>>

\* lines 39-41: the mount effect
LoadOnMount ==
  /\ loadPc = "unmounted"
  /\ StartLoad
  /\ UNCHANGED <<memoVars, homeVars, walkVars>>

\* lines 195-199: ErrorMessage is rendered when loading is false and error is
\* truthy; its Retry button calls loadDashboardData
RetryLoad ==
  /\ loadPc = "done"
  /\ ~loading
  /\ error # None /\ Truthy(Coalesce(error, ""))
  /\ StartLoad
  /\ UNCHANGED <<memoVars, homeVars, walkVars>>

\* lines 87-91: the outer catch and the finally
FailLoad(r, o) ==
  /\ requests' = [requests EXCEPT ![r] = o]
  /\ error' = Some(MessageOf(r, o))
  /\ loading' = FALSE
  /\ loadPc' = "done"

\* an optional request whose failure reaches the outer catch
OptionalFailureEscapes(r, o, err) ==
  IF o \in {"reject", "badjson"} THEN Some(MessageOf(r, o)) ELSE err

\* lines 71-77 and 80-86: try { ... if (response.ok) {...} } catch {} leaves
\* error as it is whatever the outcome o of the optional request r
OptionalFailure(r, o, err) == err

\* lines 49-52
OverviewSettles ==
  \E o \in Outcomes :
    /\ loadPc = "overview"
    /\ IF o = "ok"
         THEN /\ dashboardData' = Some(runs)
              /\ requests' = [requests EXCEPT !["overview"] = "ok",
                                              !["graph"] = "pending"]
              /\ loadPc' = "graph"
              /\ UNCHANGED <<loading, error>>
         ELSE /\ FailLoad("overview", o)
              /\ UNCHANGED dashboardData
    /\ UNCHANGED <<knowledgeGraphData, topics, insights, runs>>
    /\ UNCHANGED <<memoVars, homeVars, walkVars>>

\* lines 55-68
GraphSettles ==
  \E o \in Outcomes \cup {"nobody"} :
    /\ loadPc = "graph"
    /\ IF o = "ok"
         THEN /\ knowledgeGraphData' = Some(runs)
              /\ requests' = [requests EXCEPT !["graph"] = "ok",
                                              !["topics"] = "pending"]
              /\ loadPc' = "topics"
              /\ UNCHANGED <<loading, error>>
         ELSE /\ FailLoad("graph", o)
              /\ UNCHANGED knowledgeGraphData
    /\ UNCHANGED <<dashboardData, topics, insights, runs>>
    /\ UNCHANGED <<memoVars, homeVars, walkVars>>

\* lines 71-77
TopicsSettles ==
  \E o \in Outcomes :
    /\ loadPc = "topics"
    /\ topics' = IF o = "ok" THEN Some(runs) ELSE topics
    /\ error' = OptionalFailure("topics", o, error)
    /\ requests' = [requests EXCEPT !["topics"] = o, !["insights"] = "pending"]
    /\ loadPc' = "insights"
    /\ UNCHANGED <<loading, dashboardData, knowledgeGraphData, insights, runs>>
    /\ UNCHANGED <<memoVars, homeVars, walkVars>>

\* lines 80-86 and the finally of lines 89-91
InsightsSettles ==
  \E o \in Outcomes :
    /\ loadPc = "insights"
    /\ insights' = IF o = "ok" THEN Some(runs) ELSE insights
    /\ error' = OptionalFailure("insights", o, error)
    /\ requests' = [requests EXCEPT !["insights"] = o]
    /\ loading' = FALSE
    /\ loadPc' = "done"
    /\ UNCHANGED <<dashboardData, knowledgeGraphData, topics, runs>>
    /\ UNCHANGED <<memoVars, homeVars, walkVars>>

\* Home as constructed, lines 26-31: nothing loaded, loading starts true
InitLoad ==
  /\ HomeIdle
  /\ WalkIdle
  /\ data = [nodes |-> None, edges |-> None]
  /\ nodes = <<>>
  /\ edges = <<>>
  /\ edgesIn = <<>>
  /\ syntheticEdges = <<>>
  /\ outcome = "pending"
  /\ lastOp = "none"
  /\ loadPc = "unmounted"
  /\ loading = TRUE
  /\ error = None
  /\ dashboardData = None
  /\ knowledgeGraphData = None
  /\ topics = None
  /\ insights = None
  /\ requests = [r \in Requests |-> "none"]
  /\ runs = 0

NextLoad ==
  \/ LoadOnMount
  \/ RetryLoad
  \/ OverviewSettles
  \/ GraphSettles
  \/ TopicsSettles
  \/ InsightsSettles

SpecLoad == InitLoad /\ [][NextLoad]_vars

----------------------------------------------------------------------------
(* The traversal step by step: KnowledgeGraph.tsx lines 62-80 with one     *)
(* action per iteration of the for loop and of the while loop.  walk holds *)
(* the locals (nodesIn, visited, stack, comp), walkAt the position of the  *)
(* for loop in nodesIn, walkPc the loop control is in.                     *)

Count(q, x) == Cardinality({k \in 1..Len(q) : q[k] = x})

\* edges between the nodes of the id list q
EdgesAmong(q) ==
  [source : {q[i] : i \in DOMAIN q}, target : {q[i] : i \in DOMAIN q},
   weight : {None}]

\* payloads for the traversal: bare nodes with distinct ids and up to
\* MaxWalkEdges edges between them (self-loops, parallel edges, cycles), or
\* a payload with repeated node ids
WalkPayload(d) ==
  \/ \E q \in {r \in SeqsUpTo(Ids, MaxNodes) : Distinct(r)} :
       \E es \in SeqsUpTo(EdgesAmong(q), MaxWalkEdges) :
         d = [nodes |-> Some(BareNodes(q)), edges |-> Some(es)]
  \/ d \in DuplicatePayloads

\* lines 64-65: if (visited.has(n.id)) continue
ForContinue ==
  /\ walkPc = "for"
  /\ walkAt <= Len(walk.nodes)
  /\ walk.nodes[walkAt].id \in walk.visited
  /\ walkAt' = walkAt + 1
  /\ UNCHANGED <<walkAdj, walk, walkPc, pushes, pops, assigns>>
  /\ UNCHANGED <<memoVars, homeVars, loadVars>>

\* lines 66-68: comp += 1; const stack = [n.id]; visited.add(n.id)
ForStart ==
  /\ walkPc = "for"
  /\ walkAt <= Len(walk.nodes)
  /\ walk.nodes[walkAt].id \notin walk.visited
  /\ LET id == walk.nodes[walkAt].id
     IN  /\ walk' = [walk EXCEPT !.comp = @ + 1,
                                 !.stack = <<id>>,
                                 !.visited = @ \cup {id}]
         /\ pushes' = [pushes EXCEPT ![id] = @ + 1]
  /\ walkPc' = "while"
  /\ UNCHANGED <<walkAdj, walkAt, pops, assigns>>
  /\ UNCHANGED <<memoVars, homeVars, loadVars>>

\* lines 69-78: one iteration of while (stack.length)
WhileStep ==
  /\ walkPc = "while"
  /\ walk.stack # <<>>
  /\ LET cur    == walk.stack[Len(walk.stack)]
         st1    == DfsStep(walk, walkAdj)
         pushed == SubSeq(st1.stack, Len(walk.stack), Len(st1.stack))
     IN  /\ walk' = st1
         /\ pops' = [pops EXCEPT ![cur] = @ + 1]
         /\ assigns' = IF st1.threw THEN assigns
                       ELSE [assigns EXCEPT ![cur] = @ + 1]
         /\ pushes' = [x \in DOMAIN pushes |-> pushes[x] + Count(pushed, x)]
  /\ UNCHANGED <<walkAdj, walkAt, walkPc>>
  /\ UNCHANGED <<memoVars, homeVars, loadVars>>

\* line 69: the stack is empty, the for loop moves on
WhileExit ==
  /\ walkPc = "while"
  /\ walk.stack = <<>>
  /\ walkPc' = "for"
  /\ walkAt' = walkAt + 1
  /\ UNCHANGED <<walkAdj, walk, pushes, pops, assigns>>
  /\ UNCHANGED <<memoVars, homeVars, loadVars>>

\* line 64: nodesIn is exhausted
ForExit ==
  /\ walkPc = "for"
  /\ walkAt > Len(walk.nodes)
  /\ walkPc' = "done"
  /\ UNCHANGED <<walkAdj, walk, walkAt, pushes, pops, assigns>>
  /\ UNCHANGED <<memoVars, homeVars, loadVars>>

\* the state at line 62: nodesIn, edgesIn and adj are built (lines 44-61),
\* comp is 0, nothing is visited
InitDfs ==
  /\ HomeIdle
  /\ LoadDone
  /\ WalkPayload(data)
  /\ nodes = <<>>
  /\ edges = <<>>
  /\ edgesIn = EdgesIn(data, NodeIdSet(NodesIn(data)))
  /\ syntheticEdges = <<>>
  /\ outcome = "pending"
  /\ lastOp = "none"
  /\ walkAdj = BuildAdj([adj |-> AdjInit(NodesIn(data)), threw |-> FALSE],
                        edgesIn, 1).adj
  /\ walk = [nodes |-> NodesIn(data), visited |-> {}, stack |-> <<>>,
             comp |-> 0, threw |-> FALSE]
  /\ walkAt = 1
  /\ walkPc = "for"
  /\ pushes = [x \in NodeIdSet(NodesIn(data)) |-> 0]
  /\ pops = [x \in NodeIdSet(NodesIn(data)) |-> 0]
  /\ assigns = [x \in NodeIdSet(NodesIn(data)) |-> 0]

NextDfs == ForContinue \/ ForStart \/ WhileStep \/ WhileExit \/ ForExit

SpecDfs == InitDfs /\ [][NextDfs]_vars

----------------------------------------------------------------------------
(* Vocabulary of the properties *)

Prepared == outcome = "ok"

RawNodeList == OrEmpty(data.nodes)

RawEdgeList == OrEmpty(data.edges)

RawIds == {RawNodeList[i].id : i \in 1..Len(RawNodeList)}

RawIdsDistinct ==
  \A i, j \in 1..Len(RawNodeList) :
    i # j => RawNodeList[i].id # RawNodeList[j].id

OutIds == {nodes[i].id : i \in 1..Len(nodes)}

\* the ids reachable from the ids in S along the edges of es, either way
RECURSIVE Closure(_, _)
Closure(S, es) ==
  LET T == S \cup {es[k].target : k \in {m \in 1..Len(es) : es[m].source \in S}}
             \cup {es[k].source : k \in {m \in 1..Len(es) : es[m].target \in S}}
  IN  IF T = S THEN S ELSE Closure(T, es)

Connected(x, y, es) == y \in Closure({x}, es)

\* the connected components of the retained graph, as sets of ids
Classes == {Closure({x}, edgesIn) : x \in OutIds}

\* the position of the first node carrying component value c
FirstWith(c) ==
  CHOOSE i \in 1..Len(nodes) :
    /\ nodes[i].component = c
    /\ \A j \in 1..(i - 1) : nodes[j].component # c

\* the component values present, an undefined one counting as 0
CompValue(n) == IF n.component = None THEN 0 ELSE n.component[1]

CompValues == {CompValue(nodes[i]) : i \in 1..Len(nodes)}

\* the k-th smallest component value present
KthComp(k) ==
  CHOOSE c \in CompValues : Cardinality({x \in CompValues : x <= c}) = k

FirstIdOf(c) ==
  LET i == CHOOSE i \in 1..Len(nodes) :
             /\ CompValue(nodes[i]) = c
             /\ \A j \in 1..(i - 1) : CompValue(nodes[j]) # c
  IN  nodes[i].id

\* the groups of ids that share a component value
Groups(ns) ==
  {{ns[j].id : j \in {m \in 1..Len(ns) : ns[m].component = ns[i].component}} :
     i \in 1..Len(ns)}

----------------------------------------------------------------------------
(* Properties *)

\* C1: for a payload with pairwise distinct node ids, two output nodes carry
\* the same component value exactly when an undirected path of retained
\* (filtered, non-synthetic) edges joins them.
C1_PartitionCorrect ==
  (Prepared /\ RawIdsDistinct) =>
    \A i, j \in 1..Len(nodes) :
      (nodes[i].component = nodes[j].component)
        <=> Connected(nodes[i].id, nodes[j].id, edgesIn)

C1_Witness ==
  /\ Prepared /\ RawIdsDistinct
  /\ Len(nodes) = 3
  /\ Len(edgesIn) >= 1
  /\ nodes[1].component = nodes[3].component
  /\ nodes[1].component # nodes[2].component

\* C2: for a payload with a non-empty node list, the output nodes and all
\* output edges (retained and synthetic) form one connected graph.
C2_SingleComponent ==
  (Prepared /\ Len(nodes) > 0) =>
    \A i, j \in 1..Len(nodes) : Connected(nodes[i].id, nodes[j].id, edges)

\* C3: every output edge, retained or synthetic, has its source and its
\* target among the ids of the output nodes.
C3_ReferentialIntegrity ==
  Prepared =>
    \A k \in 1..Len(edges) :
      edges[k].source \in OutIds /\ edges[k].target \in OutIds

C3_Witness ==
  /\ Prepared
  /\ Len(edgesIn) >= 1
  /\ Len(syntheticEdges) >= 1
  /\ Len(edgesIn) < Len(RawEdgeList)
  /\ Len(edges) = Len(edgesIn) + Len(syntheticEdges)

\* C4: for a payload with pairwise distinct string ids (the empty string
\* included), the number of synthetic edges is the number of distinct
\* components minus 1, and 0 for zero or one component.
C4_SyntheticCount ==
  (Prepared /\ RawIdsDistinct) =>
    Len(syntheticEdges) =
      (IF Cardinality(CompValues) <= 1 THEN 0 ELSE Cardinality(CompValues) - 1)

\* C5: with the component values sorted ascending, the i-th synthetic edge
\* runs from the first node of the i-th value to the first node of the
\* (i+1)-th value with weight 0.1, and there is no other synthetic edge.
C5_ChainShape ==
  Prepared =>
    /\ Len(syntheticEdges) =
         (IF Cardinality(CompValues) <= 1 THEN 0 ELSE Cardinality(CompValues) - 1)
    /\ \A i \in 1..Len(syntheticEdges) :
         /\ syntheticEdges[i].source = FirstIdOf(KthComp(i))
         /\ syntheticEdges[i].target = FirstIdOf(KthComp(i + 1))
         /\ syntheticEdges[i].weight = Some([num |-> 1, den |-> 10])

\* the positions of the raw edges whose two endpoints are both listed node ids
KeptPositions ==
  {k \in 1..Len(RawEdgeList) :
     RawEdgeList[k].source \in RawIds /\ RawEdgeList[k].target \in RawIds}

\* the n-th smallest position of KeptPositions
KeptAt(n) ==
  CHOOSE k \in KeptPositions : Cardinality({m \in KeptPositions : m <= k}) = n

\* C6: an input edge is retained exactly when both endpoints are ids of
\* listed nodes, retained edges keep their input order, and an edge naming a
\* missing node neither raises nor stops the rest of the computation.
C6_ExactFilter ==
  /\ lastOp # "none" => Prepared
  /\ Prepared =>
       /\ Len(edgesIn) = Cardinality(KeptPositions)
       /\ \A n \in 1..Len(edgesIn) : edgesIn[n] = RawEdgeList[KeptAt(n)]
       /\ \A i \in 1..Len(nodes) : RawIdsDistinct => nodes[i].component # None

C6_Witness ==
  /\ Prepared
  /\ Len(RawEdgeList) = 2
  /\ 1 \notin KeptPositions
  /\ 2 \in KeptPositions
  /\ edgesIn = <<RawEdgeList[2]>>
  /\ Len(nodes) >= 2
  /\ Len(syntheticEdges) >= 1

\* C7: for a payload with pairwise distinct ids and K connected components,
\* every node has a component in 1..K, every value of 1..K is used, and the
\* values are numbered in order of first appearance in the node list.
C7_Numbering ==
  (Prepared /\ RawIdsDistinct) =>
    LET K == Cardinality(Classes)
    IN  /\ \A i \in 1..Len(nodes) :
             nodes[i].component # None /\ nodes[i].component[1] \in 1..K
        /\ \A c \in 1..K : \E i \in 1..Len(nodes) : nodes[i].component = Some(c)
        /\ Len(nodes) > 0 => nodes[1].component = Some(1)
        /\ \A c1, c2 \in 1..K :
             c1 < c2 => FirstWith(Some(c1)) < FirstWith(Some(c2))

C7_Witness ==
  /\ Prepared /\ RawIdsDistinct
  /\ Len(nodes) = 3
  /\ Cardinality(Classes) = 2
  /\ nodes[1].component = Some(1)
  /\ nodes[2].component = Some(1)
  /\ nodes[3].component = Some(2)
  /\ Len(edgesIn) >= 1

\* C8: every output node keeps the id and position of its raw node, with
\* label = raw label or else the id, frequency and degree = raw value or
\* else 0, importance = raw importance or else max(size, 1) / 5 with an
\* absent size taken as 1 (a derived importance is at least 1/5).
C8_Defaults ==
  Prepared =>
    /\ Len(nodes) = Len(RawNodeList)
    /\ \A i \in 1..Len(nodes) :
         LET raw == RawNodeList[i]
             out == nodes[i]
             sz  == IF raw.size = None THEN 1 ELSE raw.size[1]
             m   == IF sz > 1 THEN sz ELSE 1
         IN  /\ out.id = raw.id
             /\ out.label = (IF raw.label = None THEN Some(raw.id) ELSE raw.label)
             /\ out.frequency = (IF raw.frequency = None THEN Some(0) ELSE raw.frequency)
             /\ out.degree = (IF raw.degree = None THEN Some(0) ELSE raw.degree)
             /\ out.importance # None
             /\ IF raw.importance # None
                  THEN out.importance = raw.importance
                  ELSE /\ out.importance[1].den > 0
                       /\ out.importance[1].num * 5 = m * out.importance[1].den
                       /\ out.importance[1].num * 5 >= out.importance[1].den

C8_Witness ==
  /\ Prepared
  /\ Len(nodes) = 1
  /\ RawNodeList[1].label = None
  /\ RawNodeList[1].size = Some(10)
  /\ RawNodeList[1].importance = None
  /\ RawNodeList[1].frequency = Some(4)
  /\ RawNodeList[1].degree = None
  /\ nodes[1].importance = Some([num |-> 2, den |-> 1])
  /\ nodes[1].label = Some(nodes[1].id)

\* an output node read as a raw node: it has no size property
AsRaw(n) ==
  [id |-> n.id, label |-> n.label, size |-> None, importance |-> n.importance,
   frequency |-> n.frequency, degree |-> n.degree]

\* C9: normalising the output of normalisation again leaves id, label,
\* importance, frequency and degree of every node as they are.
C9_Idempotent ==
  Prepared =>
    \A i \in 1..Len(nodes) :
      LET again == NormalizeNode(AsRaw(nodes[i]))
      IN  /\ again.id = nodes[i].id
          /\ again.label = nodes[i].label
          /\ again.importance = nodes[i].importance
          /\ again.frequency = nodes[i].frequency
          /\ again.degree = nodes[i].degree

C9_Witness ==
  /\ Prepared
  /\ Len(nodes) = 1
  /\ RawNodeList[1].importance = None
  /\ RawNodeList[1].size = Some(10)
  /\ RawNodeList[1].label = Some("L")
  /\ nodes[1].importance = Some([num |-> 2, den |-> 1])
  /\ nodes[1].label # Some(nodes[1].id)

\* C10: when the same payload arrives with its node list or edge list
\* reordered, or with source and target of an edge exchanged, the run on it
\* groups the node ids into the same sets as the run before, whatever the
\* component numbers are.
C10_OrderIndependent ==
  [][(Prepared /\ lastOp' = "reorder") =>
       (outcome' = "ok" /\ Groups(nodes') = Groups(nodes))]_vars

C10_Witness ==
  /\ Prepared
  /\ lastOp = "reorder"
  /\ Len(nodes) = 3
  /\ Len(edgesIn) >= 1
  /\ Cardinality(Groups(nodes)) = 2
  /\ nodes[1].component = Some(1)
  /\ nodes[2].component = Some(2)
  /\ nodes[3].component = Some(1)

\* C11: the output edge list is exactly the retained input edges, in input
\* order and with unchanged source, target and weight, followed by the
\* synthetic edges.
C11_EdgesUnaltered ==
  Prepared =>
    LET kept == Cardinality(KeptPositions)
    IN  /\ Len(edges) = kept + Len(syntheticEdges)
        /\ \A n \in 1..kept : edges[n] = RawEdgeList[KeptAt(n)]
        /\ \A m \in 1..Len(syntheticEdges) : edges[kept + m] = syntheticEdges[m]

C11_Witness ==
  /\ Prepared
  /\ Len(RawEdgeList) = 2
  /\ Len(edgesIn) = 2
  /\ edgesIn[1] # edgesIn[2]
  /\ Len(syntheticEdges) >= 1
  /\ Len(edges) = 3

\* C12: the records returned by the preparation are not records of the
\* payload, so the in-place change the force-link layer makes to the
\* source/target of the output edges leaves the payload held by the caller
\* unchanged.
C12_PayloadUntouched ==
  [][lastOp' = "link" => data' = data]_vars

\* C13: when a node record of the payload lacks the required id, the
\* preparation ends in an error outcome instead of returning nodes and edges.
C13_FailFast ==
  (lastOp = "mount" /\ \E i \in 1..Len(RawNodeList) : RawNodeList[i].id = UndefinedId)
    => outcome = "error"

\* C14: an empty or absent node list yields empty nodes and empty edges
\* whatever the edge list is, and N nodes (distinct ids) with no retained
\* edge yield N singleton components chained by exactly N - 1 synthetic
\* edges, in both cases without error.
C14_Degenerate ==
  /\ lastOp = "mount" => Prepared
  /\ (Prepared /\ Len(RawNodeList) = 0) => (nodes = <<>> /\ edges = <<>>)
  /\ (Prepared /\ RawIdsDistinct /\ Len(RawNodeList) > 0 /\ KeptPositions = {}) =>
       /\ Len(nodes) = Len(RawNodeList)
       /\ \A i, j \in 1..Len(nodes) :
            nodes[i].component # None /\ (i # j => nodes[i].component # nodes[j].component)
       /\ Len(syntheticEdges) = Len(nodes) - 1
       /\ edges = syntheticEdges

----------------------------------------------------------------------------
(* C15: when an event changes nothing but the selected entity (a click on  *)
(* a node or on the panel's Close button), the effect that clears the SVG  *)
(* and builds the force simulation does not run again in that commit; only *)
(* the recolouring effect runs.                                            *)
C15_SimulationNotRerun ==
  (lastEvent.type \in {"click", "close"} /\ "recolor" \in effectsRun)
    => "simulation" \notin effectsRun

(* C16: a click on a node toggles against the selection current at the    *)
(* time of the click: a click on the selected node deselects (selection    *)
(* and details cleared), a click on any other node selects it, whatever    *)
(* clicks, Close clicks, label toggles and fetch completions came before.  *)
C16_ClickAgainstCurrent ==
  [][ lastEvent'.type = "click" =>
        IF selectedEntity = lastEvent'.node
          THEN selectedEntity' = None /\ entityDetails' = None
          ELSE selectedEntity' = lastEvent'.node ]_vars

\* "a" was selected, closed, selected again and then clicked once more,
\* with the labels switched off in between
C16_Witness ==
  /\ lastEvent = [type |-> "click", node |-> Some("a")]
  /\ selectedEntity = None
  /\ clickSelected = None
  /\ ~showLabels
  /\ inFlight = <<"a", "a">>

(* C17: whenever entityDetails is non-null it is the response of the fetch *)
(* that was started for the current selectedEntity, in whatever order the  *)
(* outstanding fetches complete.                                           *)
C17_DetailsOfSelection ==
  entityDetails # None => entityDetails = selectedEntity

(* C18: entityLoading is true whenever a fetch for the current selection   *)
(* has been started and has not completed, also when fetches started for   *)
(* earlier selections complete in the meantime.                            *)
C18_LoadingWhilePending ==
  (selectedEntity # None
     /\ \E k \in 1..Len(inFlight) : Some(inFlight[k]) = selectedEntity)
    => entityLoading

----------------------------------------------------------------------------
(* C19: a run of loadDashboardData has loading = true and error = null     *)
(* from its start until its requests have settled and then loading =       *)
(* false; at its end error is non-null exactly when the overview or the    *)
(* knowledge-graph request failed, a failed overview request leaves the    *)
(* graph, topics and insights requests unissued, and a failed topics or    *)
(* insights request does not set error.                                    *)
Failed(r) == requests[r] \in {"notok", "reject", "badjson", "nobody"}

C19_LoadOutcome ==
  /\ loadPc \in {"overview", "graph", "topics", "insights"}
       => (loading /\ error = None)
  /\ loadPc = "done" =>
       /\ ~loading
       /\ error # None <=> (Failed("overview") \/ Failed("graph"))
       /\ Failed("overview") =>
            \A r \in {"graph", "topics", "insights"} : requests[r] = "none"
       /\ Failed("graph") =>
            \A r \in {"topics", "insights"} : requests[r] = "none"

\* a retry after a failed run ended without error although both optional
\* requests failed
C19_Witness ==
  /\ loadPc = "done"
  /\ runs = 2
  /\ ~loading
  /\ error = None
  /\ requests["topics"] = "reject"
  /\ requests["insights"] = "badjson"

----------------------------------------------------------------------------
\* the node ids of the payload under traversal
WalkIds == DOMAIN pushes

\* what is left to do: node ids still to be popped, for-loop positions still
\* to be taken, and the loop control's way to the end of the iteration
WorkLeft ==
  3 * Cardinality({x \in WalkIds : pops[x] = 0})
    + 3 * (Len(walk.nodes) + 1 - walkAt)
    + (IF walkPc = "for" THEN 2 ELSE IF walkPc = "while" THEN 1 ELSE 0)

\* the bookkeeping of the traversal at every step and at its end
WalkCounts ==
  /\ ~walk.threw
  /\ \A x \in WalkIds :
       /\ pushes[x] <= 1 /\ pops[x] <= 1 /\ assigns[x] <= 1
       /\ pops[x] = assigns[x]
       /\ pops[x] <= pushes[x]
       /\ pushes[x] - pops[x] = Count(walk.stack, x)
  /\ walkPc # "done" => ENABLED NextDfs
  /\ walkPc = "done" =>
       /\ \A x \in WalkIds : pushes[x] = 1 /\ pops[x] = 1 /\ assigns[x] = 1
       /\ walk.stack = <<>>
       /\ walk.nodes = LabelComponents(NodesIn(data), walkAdj).nodes

(* C20: the component traversal terminates on every payload, with cycles,  *)
(* self-loop edges and parallel edges: until it has ended a further step   *)
(* is always possible and the work left strictly decreases, no node id is  *)
(* pushed, popped or given its component more than once, and when it has   *)
(* ended every node id has been pushed once, popped once and given its     *)
(* component once, the result being that of the whole computation.         *)
C20_WalkTerminates ==
  /\ []WalkCounts
  /\ [][WorkLeft >= 0 /\ WorkLeft' < WorkLeft]_vars

\* the traversal has ended on a payload whose three nodes lie on a cycle
\* a - b - "" - a
C20_Witness ==
  /\ walkPc = "done"
  /\ Len(walk.nodes) = 3
  /\ Len(edgesIn) = 3
  /\ \A x \in WalkIds : \A y \in WalkIds \ {x} :
       \E k \in 1..3 : {edgesIn[k].source, edgesIn[k].target} = {x, y}
  /\ \A x \in WalkIds : pushes[x] = 1 /\ pops[x] = 1 /\ assigns[x] = 1
  /\ walk.comp = 1

====
